---- MODULE Spec2Model ----
(***************************************************************************)
(* A model of the NovelWeaver session controller (the App component) and   *)
(* of the oracle client (services/geminiService.ts).                       *)
(*                                                                         *)
(* Conventions.  A JavaScript string is a sequence of pieces (characters   *)
(* for the search input, words elsewhere); includes(x) is membership of    *)
(* the piece x, and the empty sequence is the falsy value (null,           *)
(* undefined or "") wherever the code only tests truthiness.  An absent    *)
(* number (undefined status or code, null id) is 0.                        *)
(***************************************************************************)
EXTENDS Integers, Sequences, FiniteSets, Bags, TLC

VARIABLES
    apiKey,               \* process.env.API_KEY is set (fixed for the session)
    state,                \* useState<NovelState>
    isDownloadModalOpen,  \* useState(false)
    downloadProgress,     \* useState<{current,total} | null>
    errorMsg,             \* useState<string | null>
    abortFetchRef,        \* useRef(false).current
    searches,             \* calls of handleSearch awaiting fetchNovelMetadata
    loads,                \* calls of loadChapterContent awaiting fetchChapterContent
    jobs,                 \* calls of handleDownloadRange that have not returned
    exports,              \* what generateRangeDownload produced, in order
    nextId,               \* source of crypto.randomUUID()
    nSearch,              \* searches submitted so far (bounded)
    nJob,                 \* range downloads with a selection so far (bounded)
    nAction,              \* requests of the user so far (bounded)
    retry                 \* one call of retryWithBackoff, step by step

vars == <<apiKey, state, isDownloadModalOpen, downloadProgress, errorMsg,
          abortFetchRef, searches, loads, jobs, exports, nextId, nSearch,
          nJob, nAction, retry>>

sessionVars == <<apiKey, state, isDownloadModalOpen, downloadProgress,
                 errorMsg, abortFetchRef, searches, loads, jobs, exports,
                 nextId, nSearch, nJob, nAction>>

-----------------------------------------------------------------------------
(* Bounds of the model. *)

\* largest totalChapters the oracle reports
MaxTotal == 2
\* searches that pass validation, per session
MaxSearches == 2
\* range downloads with a non-empty selection, per session
MaxJobs == 2
\* chapter fetches in flight at once
MaxLoads == 2
\* requests of the user (search submitted, chapter chosen, retry, range
\* download), per session
MaxActions == 3

-----------------------------------------------------------------------------
(* Strings. *)

Includes(msg, tok) == \E i \in 1..Len(msg) : msg[i] = tok

Truthy(seq) == Len(seq) > 0

MsgNoApiKey == <<"API", "Key", "not", "found", "in", "environment", "variables">>
MsgInterpret == <<"Failed", "to", "interpret", "AI", "response.", "Please", "try", "again.">>
MsgEmpty == <<"Empty", "response", "from", "AI">>
MsgUnavailable == <<"Chapter", "content", "unavailable.">>
MsgParseChapter == <<"Error", "parsing", "chapter", "data.", "Please", "retry.">>
MsgQuota == <<"API", "quota", "exceeded.", "Please", "try", "again", "later", "or", "slow", "down.">>
MsgAfterRetries == <<"Operation", "failed", "after", "retries">>
MsgNotFound == <<"Novel", "not", "found", "on", "supported", "sites">>
MsgTooShortName == <<"Novel", "name", "is", "too", "short.">>
MsgEnterName == <<"Please", "enter", "a", "novel", "name.">>
MsgTooShort == <<"Novel", "name", "is", "too", "short.", "Please", "enter", "a", "valid", "name.">>
MsgSearchFailed == <<"Failed", "to", "find", "novel.">>

Err(status, code, message) ==
    [status |-> status, code |-> code, message |-> message]

\* new Error(message)
NewError(message) == Err(0, 0, message)

-----------------------------------------------------------------------------
(* The oracle: what ai.models.generateContent may do.  It either rejects   *)
(* with an error of the transport, or resolves with a response whose text  *)
(* is described by what parseJsonFromResponse looks at.                    *)

RateLimitErrors ==
    { Err(429, 0, <<"Too", "Many", "Requests">>),
      Err(0, 429, <<"rate", "limited">>),
      Err(0, 0, <<"got", "status:", "429">>),
      Err(0, 0, <<"You", "exceeded", "your", "current", "quota">>),
      Err(0, 0, <<"Resource", "has", "been", "exhausted">>) }

OtherErrors ==
    { Err(0, 0, <<"fetch", "failed">>),
      Err(500, 0, <<"Unexpected", "token", "in", "JSON">>),
      Err(503, 0, <<>>) }

\* text: len is its length, open the index of the first '{' (-1: none), close
\* the index of the last '}' (-1: none), wellFormed whether JSON.parse
\* accepts the substring between them, json the object it then returns.
Text(len, open, close, wellFormed, json) ==
    [len |-> len, open |-> open, close |-> close, wellFormed |-> wellFormed,
     json |-> json]

NoJson == [found |-> FALSE, title |-> <<>>, content |-> <<>>, exists |-> FALSE,
           author |-> <<>>, totalChapters |-> 0, chapterTitles |-> <<>>]

ChapterJson(found, title, content) ==
    [NoJson EXCEPT !.found = found, !.title = title, !.content = content]

MetadataJson(exists, title, author, totalChapters, chapterTitles) ==
    [NoJson EXCEPT !.exists = exists, !.title = title, !.author = author,
                   !.totalChapters = totalChapters,
                   !.chapterTitles = chapterTitles]

Reject(e) == [kind |-> "reject", error |-> e, text |-> Text(0, -1, -1, FALSE, NoJson),
              uri |-> <<>>]

Respond(text, uri) == [kind |-> "respond", error |-> NewError(<<>>), text |-> text,
                       uri |-> uri]

EmptyText == Text(0, -1, -1, FALSE, NoJson)
MalformedText == Text(9, 0, 8, FALSE, NoJson)

BrokenTexts ==
    { EmptyText,
      Text(5, -1, -1, FALSE, NoJson),      \* prose without an object
      Text(5, 0, -1, FALSE, NoJson),       \* '{' never closed
      MalformedText }                      \* braces around malformed JSON

NotFoundText == Text(9, 0, 8, TRUE, ChapterJson(FALSE, <<>>, <<>>))
StoryText == Text(9, 0, 8, TRUE, ChapterJson(TRUE, <<"The", "Beginning">>, <<"story">>))
SourceUri == <<"https://novelbin.com/c">>

ChapterTexts ==
    BrokenTexts \cup
    { NotFoundText,
      Text(9, 0, 8, TRUE, ChapterJson(TRUE, <<"The", "Beginning">>, <<>>)),
      Text(9, 0, 8, TRUE, ChapterJson(TRUE, <<"The", "Beginning">>, <<"CONTENT_NOT_FOUND">>)),
      StoryText,
      Text(9, 0, 8, TRUE, ChapterJson(TRUE, <<>>, <<"story">>)) }

\* The replies one call of retryWithBackoff is run against on its own.
AllChapterReplies ==
    { Reject(e) : e \in RateLimitErrors \cup OtherErrors } \cup
    { Respond(t, u) : t \in ChapterTexts, u \in {<<>>, SourceUri} }

\* The replies the oracle gives to a chapter request within a session:
\* throttled, not found, found.
ChapterReplies ==
    { Reject(Err(429, 0, <<"Too", "Many", "Requests">>)),
      Respond(NotFoundText, <<>>),
      Respond(StoryText, SourceUri) }

NovelNotFoundText == Text(9, 0, 8, TRUE, MetadataJson(FALSE, <<>>, <<>>, 0, <<>>))

NovelText(totalChapters, chapterTitles) ==
    Text(9, 0, 8, TRUE,
         MetadataJson(TRUE, <<"Novel">>, <<"Author">>, totalChapters, chapterTitles))

AllMetadataReplies ==
    { Reject(e) : e \in RateLimitErrors \cup OtherErrors } \cup
    { Respond(t, <<>>) : t \in BrokenTexts \cup {NovelNotFoundText} } \cup
    { Respond(NovelText(1, ts), <<>>) : ts \in {<<>>, << <<"Prologue">> >>} }

\* The replies the oracle gives to a search within a session.
MetadataReplies ==
    { Reject(Err(429, 0, <<"Too", "Many", "Requests">>)),
      Respond(NovelNotFoundText, <<>>) } \cup
    { Respond(NovelText(t, << <<"Prologue">> >>), <<>>) : t \in 1..MaxTotal }

-----------------------------------------------------------------------------
(* services/geminiService.ts *)

\* What an async function settles with: a value (ok) or a thrown error.
NoValue == [content |-> <<>>, title |-> <<>>, sourceUrl |-> <<>>, meta |-> NoJson]

Return(value) == [ok |-> TRUE, value |-> value, error |-> NewError(<<>>)]

Throw(e) == [ok |-> FALSE, value |-> NoValue, error |-> e]

PlaceholderTitle(n) == <<"Chapter", ToString(n)>>

\* parseJsonFromResponse: every failure inside the try block is rethrown as
\* the one "Failed to interpret" error.
parseJsonFromResponse(text) ==
    IF text.open = -1 \/ text.close = -1
    THEN Throw(NewError(MsgInterpret))
    ELSE IF ~text.wellFormed
         THEN Throw(NewError(MsgInterpret))
         ELSE Return([NoValue EXCEPT !.meta = text.json])

\* The catch block of the operation fetchChapterContent passes to
\* retryWithBackoff.
ChapterCatch(e) ==
    IF Truthy(e.message) /\ Includes(e.message, "JSON")
    THEN Throw(NewError(MsgParseChapter))
    ELSE Throw(e)

\* The operation fetchChapterContent passes to retryWithBackoff, for one
\* reply of the oracle.
ChapterOp(reply, chapterNumber) ==
    IF reply.kind = "reject" THEN ChapterCatch(reply.error)
    ELSE IF reply.text.len = 0 THEN ChapterCatch(NewError(MsgEmpty))
    ELSE LET parsed == parseJsonFromResponse(reply.text)
             result == parsed.value.meta
         IN  IF ~parsed.ok THEN ChapterCatch(parsed.error)
             ELSE IF ~result.found \/ ~Truthy(result.content)
                     \/ Includes(result.content, "CONTENT_NOT_FOUND")
                  THEN ChapterCatch(NewError(MsgUnavailable))
                  ELSE Return([NoValue EXCEPT
                                 !.content = result.content,
                                 !.title = IF Truthy(result.title) THEN result.title
                                           ELSE PlaceholderTitle(chapterNumber),
                                 !.sourceUrl = reply.uri])

\* The operation fetchNovelMetadata passes to retryWithBackoff.
MetadataOp(reply) ==
    IF reply.kind = "reject" THEN Throw(reply.error)
    ELSE IF reply.text.len = 0 THEN Throw(NewError(MsgEmpty))
    ELSE parseJsonFromResponse(reply.text)

\* Default parameters of retryWithBackoff.
DefaultMaxRetries == 3
DefaultInitialDelay == 2000

\* A mutant of IsRateLimit: any error that carries a message is retried.
IsRateLimitAnyMessage(error) ==
    \/ error.status = 429
    \/ error.code = 429
    \/ Truthy(error.message)

IsRateLimit(error) ==
    \/ error.status = 429
    \/ error.code = 429
    \/ /\ Truthy(error.message)
       /\ \/ Includes(error.message, "429")
          \/ Includes(error.message, "quota")
          \/ Includes(error.message, "exhausted")

\* The for statement's test, entered with loop counter i.
RetryLoop(r, i) ==
    IF i < r.maxRetries
    THEN [r EXCEPT !.i = i, !.pc = "call"]
    ELSE [r EXCEPT !.i = i, !.pc = "done",
                   !.result = Throw(NewError(MsgAfterRetries))]

\* retryWithBackoff up to its first invocation of the operation.  calls
\* counts the invocations, hist lists their outcomes and waits the delays
\* handed to setTimeout.
NewRetry(maxRetries, initialDelay) ==
    RetryLoop([pc |-> "call", i |-> 0, delay |-> initialDelay,
               maxRetries |-> maxRetries, calls |-> 0, hist |-> <<>>,
               waits |-> <<>>, result |-> Throw(NewError(<<>>))], 0)

\* One invocation of the operation settling with outcome out: the try
\* statement of the loop body.
RetryCatch(r, out) ==
    LET called == [r EXCEPT !.calls = @ + 1, !.hist = Append(@, out)]
    IN  IF out.ok
        THEN [called EXCEPT !.pc = "done", !.result = out]
        ELSE IF IsRateLimit(out.error)
             THEN IF called.i = called.maxRetries - 1
                  THEN [called EXCEPT !.pc = "done",
                                      !.result = Throw(NewError(MsgQuota))]
                  ELSE [called EXCEPT !.pc = "wait",
                                      !.waits = Append(@, called.delay)]
             ELSE [called EXCEPT !.pc = "done", !.result = out]

\* A mutant of RetryResume: the delay is not doubled.
RetryResumeFixedDelay(r) ==
    RetryLoop(r, r.i + 1)

\* The timer of the backoff fires: delay *= 2; continue.
RetryResume(r) ==
    RetryLoop([r EXCEPT !.delay = @ * 2], r.i + 1)

\* retryWithBackoff run to its end against the outcomes the operation
\* yields, in order.
RECURSIVE RetryRun(_, _)
RetryRun(r, script) ==
    IF r.pc = "done" THEN r
    ELSE IF r.pc = "wait" THEN RetryRun(RetryResume(r), script)
    ELSE IF script = <<>> THEN r
    ELSE RetryRun(RetryCatch(r, Head(script)), Tail(script))

-----------------------------------------------------------------------------
(* retryWithBackoff on its own: one call with the default budget, the      *)
(* operation being that of fetchChapterContent or of fetchNovelMetadata.   *)

OpOutcomes ==
    { ChapterOp(reply, 1) : reply \in AllChapterReplies } \cup
    { MetadataOp(reply) : reply \in AllMetadataReplies }

RetryIdle == NewRetry(0, 0)

RetryStart ==
    /\ retry = RetryIdle
    /\ retry' = NewRetry(DefaultMaxRetries, DefaultInitialDelay)
    /\ UNCHANGED sessionVars

RetryInvoke ==
    /\ retry.pc = "call"
    /\ \E out \in OpOutcomes : retry' = RetryCatch(retry, out)
    /\ UNCHANGED sessionVars

RetryTimer ==
    /\ retry.pc = "wait"
    /\ retry' = RetryResume(retry)
    /\ UNCHANGED sessionVars

NextRetry == RetryStart \/ RetryInvoke \/ RetryTimer

-----------------------------------------------------------------------------
(* What the two exported fetches settle with. *)

\* Every result retryWithBackoff can end with from r on, the operation
\* yielding outcomes of the set outs.
RECURSIVE RetryResults(_, _)
RetryResults(r, outs) ==
    IF r.pc = "done" THEN {r.result}
    ELSE IF r.pc = "wait" THEN RetryResults(RetryResume(r), outs)
    ELSE UNION { RetryResults(RetryCatch(r, out), outs) : out \in outs }

\* getClient
getClient(key) ==
    IF ~key THEN Throw(NewError(MsgNoApiKey)) ELSE Return(NoValue)

\* String.prototype.trim on a sequence of characters
RECURSIVE Trim(_)
Trim(s) ==
    IF s = <<>> THEN s
    ELSE IF Head(s) = " " THEN Trim(Tail(s))
    ELSE IF s[Len(s)] = " " THEN Trim(SubSeq(s, 1, Len(s) - 1))
    ELSE s

\* The outcomes of fetchChapterContent(novelName, chapterNumber, ...),
\* API_KEY being set or not.
fetchChapterContent(key, chapterNumber) ==
    IF ~getClient(key).ok THEN {getClient(key)}
    ELSE RetryResults(NewRetry(DefaultMaxRetries, DefaultInitialDelay),
                      { ChapterOp(reply, chapterNumber) : reply \in ChapterReplies })

\* The failures of fetchChapterContent over every reply of the oracle: no
\* API key, transport and HTTP errors, unparseable and empty responses,
\* content unavailable, quota exceeded.
ChapterFailures ==
    { res \in {getClient(FALSE)} \cup
               RetryResults(NewRetry(DefaultMaxRetries, DefaultInitialDelay),
                            { ChapterOp(reply, 1) : reply \in AllChapterReplies }) :
        ~res.ok }

\* The results fetchChapterContent resolves with, over every reply of the
\* oracle.
ChapterSuccesses ==
    { res \in RetryResults(NewRetry(DefaultMaxRetries, DefaultInitialDelay),
                           { ChapterOp(reply, 1) : reply \in AllChapterReplies }) :
        res.ok }

\* The same, tabulated for the chapter numbers of the session.
ChapterFetches ==
    [key \in BOOLEAN, n \in 1..MaxTotal |-> fetchChapterContent(key, n)]

\* fetchNovelMetadata after its validation of the name.
MetadataRequest(key) ==
    IF ~getClient(key).ok THEN {getClient(key)}
    ELSE RetryResults(NewRetry(DefaultMaxRetries, DefaultInitialDelay),
                      { MetadataOp(reply) : reply \in MetadataReplies })

MetadataFetches == [key \in BOOLEAN |-> MetadataRequest(key)]

\* The outcomes of fetchNovelMetadata(novelName).
fetchNovelMetadata(key, novelName) ==
    IF ~Truthy(novelName) \/ Len(Trim(novelName)) < 2
    THEN {Throw(NewError(MsgTooShortName))}
    ELSE MetadataFetches[key]

-----------------------------------------------------------------------------
(* The session controller: the App component. *)

\* downloadProgress === null
NoProgress == [current |-> -1, total |-> -1]

Progress(current, total) == [current |-> current, total |-> total]

InitialState ==
    [title |-> <<>>, author |-> <<>>, totalChaptersEstimate |-> 0,
     chapters |-> <<>>, isFetchingList |-> FALSE, currentChapterId |-> 0]

\* What the user may have typed into the search field when submitting.
SearchInputs ==
    { <<>>, <<" ">>, <<"a">>, <<" ", "a", " ">>, <<" ", "a", "b", " ">> }

\* state.chapters.find(c => c.id === id), as a set of at most one record
FindChapter(st, id) ==
    { st.chapters[i] : i \in { k \in 1..Len(st.chapters) : st.chapters[k].id = id } }

\* state.chapters.findIndex(c => c.id === id), 0 standing for -1
FindIndex(st, id) ==
    IF \E k \in 1..Len(st.chapters) : st.chapters[k].id = id
    THEN CHOOSE k \in 1..Len(st.chapters) :
            /\ st.chapters[k].id = id
            /\ \A m \in 1..(k - 1) : st.chapters[m].id # id
    ELSE 0

\* A mutant of MapChapter: the record is looked up by its number.
MapChapterByNumber(st, id, patch) ==
    [st EXCEPT !.chapters =
        [k \in 1..Len(st.chapters) |->
            IF st.chapters[k].number = id THEN patch @@ st.chapters[k]
            ELSE st.chapters[k]]]

\* prev.chapters.map(c => c.id === id ? { ...c, ...patch } : c)
MapChapter(st, id, patch) ==
    [st EXCEPT !.chapters =
        [k \in 1..Len(st.chapters) |->
            IF st.chapters[k].id = id THEN patch @@ st.chapters[k]
            ELSE st.chapters[k]]]

\* The fields the three functional updates of loadChapterContent set.
\* A mutant of SetLoading: starting a fetch also resets the content.
SetLoadingResetsContent ==
    [status |-> "loading", errorMessage |-> <<>>, content |-> <<>>]

SetLoading == [status |-> "loading", errorMessage |-> <<>>]

SetCompleted(result) ==
    [content |-> result.content, title |-> result.title,
     status |-> "completed", sourceUrl |-> result.sourceUrl]

\* A mutant of SetError: the failure also drops the content.
SetErrorDropsContent(error) ==
    [status |-> "error", errorMessage |-> error.message, content |-> <<>>]

SetError(error) ==
    [status |-> "error", errorMessage |-> error.message]

\* History kept with a call of loadChapterContent: who invoked it (src),
\* for which batch job (job, else 0), and the status the record had in the
\* live manifest when it was invoked ("none": no such record).
LiveStatus(st, id) ==
    IF FindChapter(st, id) = {} THEN "none"
    ELSE (CHOOSE c \in FindChapter(st, id) : TRUE).status

LoadCall(st, chapter, src, jid) ==
    [id |-> chapter.id, number |-> chapter.number, src |-> src, job |-> jid,
     seen |-> LiveStatus(st, chapter.id)]

\* loadChapterContent(chapter) up to its await, from the state st that the
\* handler calling it has produced so far.
LoaderStart(st, chapter, src, jid) ==
    /\ BagCardinality(loads) < MaxLoads
    /\ state' = MapChapter(st, chapter.id, SetLoading)
    /\ loads' = loads (+) SetToBag({LoadCall(st, chapter, src, jid)})

\* The effect on [state.currentChapterId], run after a render in which the
\* selection went from before to st.currentChapterId.
AutoLoad(st, before) ==
    LET target == { c \in FindChapter(st, st.currentChapterId) :
                      /\ ~Truthy(c.content)
                      /\ c.status # "loading"
                      /\ c.status # "error" }
    IN  IF st.currentChapterId # before /\ st.currentChapterId # 0 /\ target # {}
        THEN LoaderStart(st, CHOOSE c \in target : TRUE, "auto", 0)
        ELSE state' = st /\ loads' = loads

\* A handler through which the user asks for something counts against the
\* session's budget; opening or closing the modal, dismissing the error
\* banner and a range download that selects nothing do not.
UserAction == nAction < MaxActions /\ nAction' = nAction + 1

\* Default of handleSearch when the oracle gives no totalChapters.
DefaultTotalChapters == 100

\* The placeholder records handleSearch builds from the metadata, ids being
\* drawn from first on.
NewChapters(metadata, totalChapters, first) ==
    [i \in 1..totalChapters |->
        [id |-> first + i - 1,
         number |-> i,
         title |-> IF i - 1 < Len(metadata.chapterTitles)
                   THEN metadata.chapterTitles[i]
                   ELSE PlaceholderTitle(i),
         content |-> <<>>,
         status |-> "pending",
         errorMessage |-> <<>>,
         sourceUrl |-> <<>>]]

\* A mutant of SearchRejection: the length check is missing.
SearchRejectionEmptyOnly(trimmedInput) ==
    IF ~Truthy(trimmedInput) THEN MsgEnterName ELSE <<>>

\* The two early returns of handleSearch: the message it rejects the
\* trimmed input with, <<>> when it accepts it.
SearchRejection(trimmedInput) ==
    IF ~Truthy(trimmedInput) THEN MsgEnterName
    ELSE IF Len(trimmedInput) < 2 THEN MsgTooShort
    ELSE <<>>

\* handleSearch up to its await, the search field holding input.  History:
\* the pending call remembers the state it was submitted in (prior) and
\* whether no other search was pending then (alone).
HandleSearch(input) ==
    LET trimmedInput == Trim(input)
    IN  /\ UserAction
        /\ IF Truthy(SearchRejection(trimmedInput))
           THEN /\ errorMsg' = SearchRejection(trimmedInput)
                /\ UNCHANGED <<apiKey, state, isDownloadModalOpen, downloadProgress,
                               abortFetchRef, searches, loads, jobs, exports,
                               nextId, nSearch, nJob, retry>>
           ELSE /\ nSearch < MaxSearches
                /\ state' = [state EXCEPT !.isFetchingList = TRUE,
                                          !.title = trimmedInput,
                                          !.author = <<>>,
                                          !.chapters = <<>>,
                                          !.currentChapterId = 0]
                /\ errorMsg' = <<>>
                /\ abortFetchRef' = FALSE
                /\ searches' = searches \cup
                                 {[sid |-> nSearch + 1, novelName |-> trimmedInput,
                                   prior |-> state,
                                   alone |-> searches = {}]}
                /\ nSearch' = nSearch + 1
                /\ UNCHANGED <<apiKey, isDownloadModalOpen, downloadProgress, loads,
                               jobs, exports, nextId, nJob, retry>>

\* The catch block of handleSearch.
SearchFailed(error) ==
    /\ errorMsg' = IF Truthy(error.message) THEN error.message ELSE MsgSearchFailed
    /\ state' = [state EXCEPT !.isFetchingList = FALSE]
    /\ UNCHANGED <<loads, nextId>>

\* handleSearch from the settling of fetchNovelMetadata on, followed by the
\* auto-load effect of the render it causes.
SearchSettle(s, res) ==
    /\ s \in searches
    /\ searches' = searches \ {s}
    /\ IF ~res.ok THEN SearchFailed(res.error)
       ELSE LET metadata == res.value.meta
                totalChapters == IF metadata.totalChapters # 0
                                 THEN metadata.totalChapters
                                 ELSE DefaultTotalChapters
                newChapters == NewChapters(metadata, totalChapters, nextId)
            IN  IF ~metadata.exists THEN SearchFailed(NewError(MsgNotFound))
                ELSE /\ AutoLoad([state EXCEPT
                                    !.title = metadata.title,
                                    !.author = metadata.author,
                                    !.totalChaptersEstimate = totalChapters,
                                    !.isFetchingList = FALSE,
                                    !.chapters = newChapters,
                                    !.currentChapterId =
                                        IF Len(newChapters) > 0
                                        THEN newChapters[1].id ELSE 0],
                                 state.currentChapterId)
                     /\ nextId' = nextId + Len(newChapters)
                     /\ errorMsg' = errorMsg
    /\ UNCHANGED <<apiKey, isDownloadModalOpen, downloadProgress, abortFetchRef,
                   jobs, exports, nSearch, nJob, nAction, retry>>

\* onClick of a ChapterListItem, with the effect of the render it causes.
SelectChapter(id) ==
    /\ ~state.isFetchingList
    /\ FindChapter(state, id) # {}
    /\ id # state.currentChapterId
    /\ AutoLoad([state EXCEPT !.currentChapterId = id], state.currentChapterId)
    /\ UserAction
    /\ UNCHANGED <<apiKey, isDownloadModalOpen, downloadProgress, errorMsg,
                   abortFetchRef, searches, jobs, exports, nextId, nSearch,
                   nJob, retry>>

\* navigateChapter, step being +1 for 'next' and -1 for 'prev'.
NavigateChapter(step) ==
    LET currentIndex == FindIndex(state, state.currentChapterId)
        newIndex == currentIndex + step
    IN  /\ currentIndex # 0
        /\ newIndex >= 1 /\ newIndex <= Len(state.chapters)
        /\ AutoLoad([state EXCEPT !.currentChapterId = state.chapters[newIndex].id],
                    state.currentChapterId)
        /\ UserAction
        /\ UNCHANGED <<apiKey, isDownloadModalOpen, downloadProgress, errorMsg,
                       abortFetchRef, searches, jobs, exports, nextId, nSearch,
                       nJob, retry>>

\* onRetry of the ReaderView: defined only while the active chapter's
\* status is 'error'.
Retry ==
    /\ \E activeChapter \in FindChapter(state, state.currentChapterId) :
          /\ activeChapter.status = "error"
          /\ LoaderStart(state, activeChapter, "retry", 0)
    /\ UserAction
    /\ UNCHANGED <<apiKey, isDownloadModalOpen, downloadProgress, errorMsg,
                   abortFetchRef, searches, jobs, exports, nextId, nSearch,
                   nJob, retry>>

\* The Download button of the navbar, rendered while there are chapters.
OpenModal ==
    /\ Len(state.chapters) > 0
    /\ ~isDownloadModalOpen
    /\ isDownloadModalOpen' = TRUE
    /\ UNCHANGED <<apiKey, state, downloadProgress, errorMsg, abortFetchRef,
                   searches, loads, jobs, exports, nextId, nSearch, nJob, nAction, retry>>

\* onClose of the DownloadModal.  History: a job that is suspended when the
\* cancel signal is set notes it (cancelled) and, when it is in its
\* inter-fetch delay, the position it had reached (cancelledAt).
CloseModal ==
    /\ isDownloadModalOpen
    /\ abortFetchRef' = IF downloadProgress # NoProgress THEN TRUE ELSE abortFetchRef
    /\ isDownloadModalOpen' = FALSE
    /\ downloadProgress' = NoProgress
    /\ jobs' = IF downloadProgress # NoProgress
               THEN { [j EXCEPT !.cancelledAt = IF j.pc = "delay" THEN j.k ELSE @,
                                !.cancelled = TRUE] :
                        j \in jobs }
               ELSE jobs
    /\ UNCHANGED <<apiKey, state, errorMsg, searches, loads, exports, nextId,
                   nSearch, nJob, nAction, retry>>

\* The dismiss button of the error banner.
DismissError ==
    /\ Truthy(errorMsg)
    /\ errorMsg' = <<>>
    /\ UNCHANGED <<apiKey, state, isDownloadModalOpen, downloadProgress,
                   abortFetchRef, searches, loads, jobs, exports, nextId,
                   nSearch, nJob, nAction, retry>>

-----------------------------------------------------------------------------
(* Batch download and export. *)

\* rangeSize of the DownloadModal
RangeSize == 100

Max(a, b) == IF a >= b THEN a ELSE b

Min(a, b) == IF a <= b THEN a ELSE b

\* The range buttons the DownloadModal renders.
Ranges(totalChapters, chapters) ==
    LET maxChapters == Max(totalChapters, Len(chapters))
    IN  { [start |-> i, end |-> Min(i + RangeSize - 1, maxChapters)] :
            i \in { n \in 1..maxChapters : (n - 1) % RangeSize = 0 } }

InRange(c, start, end) == c.number >= start /\ c.number <= end

\* validChapters.sort((a, b) => a.number - b.number)
RECURSIVE SortByNumber(_)
SortByNumber(cs) ==
    IF cs = <<>> THEN cs
    ELSE LET rest == SortByNumber(Tail(cs))
             before == SelectSeq(rest, LAMBDA c : c.number < Head(cs).number)
             after == SelectSeq(rest, LAMBDA c : c.number >= Head(cs).number)
         IN  before \o <<Head(cs)>> \o after

MsgExportFailed(start, end) ==
    <<"Failed", "to", "download", "any", "chapters", "in", "range",
      ToString(start), ToString(end)>>

\* The document generateRangeDownload hands to the browser; its file name
\* is a function of the title and the range it carries.
Document(st, start, end, validChapters) ==
    [title |-> st.title, author |-> st.author, start |-> start, end |-> end,
     sections |-> [k \in 1..Len(validChapters) |->
                     [number |-> SortByNumber(validChapters)[k].number,
                      title |-> SortByNumber(validChapters)[k].title,
                      content |-> SortByNumber(validChapters)[k].content]]]

\* generateRangeDownload(start, end), st being the state of the render
\* whose closure it is called from.
generateRangeDownload(st, start, end) ==
    LET rangeChapters == SelectSeq(st.chapters, LAMBDA c : InRange(c, start, end))
        validChapters == SelectSeq(rangeChapters, LAMBDA c : Truthy(c.content))
    IN  IF Len(validChapters) = 0
        THEN errorMsg' = MsgExportFailed(start, end) /\ exports' = exports
        ELSE /\ exports' = Append(exports, Document(st, start, end, validChapters))
             /\ errorMsg' = errorMsg

\* The state of a call of handleDownloadRange that is suspended: at the
\* await of loadChapterContent for toFetch[k] (pc = "fetch") or at the
\* timer that follows it (pc = "delay").  closure is the state of the
\* render the handler was created in.  cancelledAt and cancelled are history
\* (CloseModal).
Job(jid, start, end, toFetch, total, completedCount, closure) ==
    [jid |-> jid, start |-> start, end |-> end, toFetch |-> toFetch, k |-> 1,
     pc |-> "fetch", completedCount |-> completedCount, total |-> total,
     closure |-> closure, cancelledAt |-> 0, cancelled |-> FALSE]

\* A mutant of HandleDownloadRange: the progress is set before the
\* selection is tested for being empty.
HandleDownloadRangeShowsProgress(start, end) ==
    LET target == SelectSeq(state.chapters, LAMBDA c : InRange(c, start, end))
        toFetch == SelectSeq(target, LAMBDA c : ~Truthy(c.content))
        completedCount == Len(target) - Len(toFetch)
    IN  /\ isDownloadModalOpen
        /\ downloadProgress = NoProgress
        /\ [start |-> start, end |-> end]
              \in Ranges(state.totalChaptersEstimate, state.chapters)
        /\ abortFetchRef' = FALSE
        /\ IF Len(target) = 0
           THEN /\ downloadProgress' = Progress(0, 0)
                /\ UNCHANGED <<state, errorMsg, loads, jobs, exports, nJob,
                               nAction>>
           ELSE IF Len(toFetch) = 0
           THEN /\ nJob < MaxJobs
                /\ generateRangeDownload(state, start, end)
                /\ downloadProgress' = NoProgress
                /\ nJob' = nJob + 1
                /\ UserAction
                /\ UNCHANGED <<state, loads, jobs>>
           ELSE /\ nJob < MaxJobs
                /\ LoaderStart(state, toFetch[1], "batch", nJob + 1)
                /\ downloadProgress' = Progress(completedCount, Len(target))
                /\ jobs' = jobs \cup {Job(nJob + 1, start, end, toFetch,
                                          Len(target), completedCount, state)}
                /\ nJob' = nJob + 1
                /\ UserAction
                /\ UNCHANGED <<errorMsg, exports>>
        /\ UNCHANGED <<apiKey, isDownloadModalOpen, searches, nextId, nSearch,
                       retry>>

\* A range button of the modal: handleDownloadRange(start, end) up to its
\* first await, or to its end when nothing is to be fetched.
HandleDownloadRange(start, end) ==
    LET target == SelectSeq(state.chapters, LAMBDA c : InRange(c, start, end))
        toFetch == SelectSeq(target, LAMBDA c : ~Truthy(c.content))
        completedCount == Len(target) - Len(toFetch)
    IN  /\ isDownloadModalOpen
        /\ downloadProgress = NoProgress
        /\ [start |-> start, end |-> end]
              \in Ranges(state.totalChaptersEstimate, state.chapters)
        /\ abortFetchRef' = FALSE
        /\ IF Len(target) = 0
           THEN UNCHANGED <<state, downloadProgress, errorMsg, loads, jobs,
                            exports, nJob, nAction>>
           ELSE IF Len(toFetch) = 0
           THEN /\ nJob < MaxJobs
                /\ generateRangeDownload(state, start, end)
                /\ downloadProgress' = NoProgress
                /\ nJob' = nJob + 1
                /\ UserAction
                /\ UNCHANGED <<state, loads, jobs>>
           ELSE /\ nJob < MaxJobs
                /\ LoaderStart(state, toFetch[1], "batch", nJob + 1)
                /\ downloadProgress' = Progress(completedCount, Len(target))
                /\ jobs' = jobs \cup {Job(nJob + 1, start, end, toFetch,
                                          Len(target), completedCount, state)}
                /\ nJob' = nJob + 1
                /\ UserAction
                /\ UNCHANGED <<errorMsg, exports>>
        /\ UNCHANGED <<apiKey, isDownloadModalOpen, searches, nextId, nSearch,
                       retry>>

\* A mutant of LoadSettle: the failure of the fetch is thrown on to the
\* batch job awaiting the call, which ends there.
LoadSettleRethrows(l, res) ==
    /\ BagIn(l, loads)
    /\ loads' = loads (-) SetToBag({l})
    /\ state' = IF res.ok
                THEN MapChapter(state, l.id, SetCompleted(res.value))
                ELSE MapChapter(state, l.id, SetError(res.error))
    /\ IF l.src = "batch"
       THEN \E j \in jobs :
              /\ j.jid = l.job
              /\ IF res.ok
                 THEN /\ downloadProgress' = Progress(j.completedCount + 1, j.total)
                      /\ jobs' = (jobs \ {j}) \cup
                                   {[j EXCEPT !.completedCount = @ + 1,
                                              !.pc = "delay"]}
                 ELSE /\ downloadProgress' = downloadProgress
                      /\ jobs' = jobs \ {j}
       ELSE UNCHANGED <<downloadProgress, jobs>>
    /\ UNCHANGED <<apiKey, isDownloadModalOpen, errorMsg, abortFetchRef,
                   searches, exports, nextId, nSearch, nJob, nAction, retry>>

\* fetchChapterContent settles with res for the call l of
\* loadChapterContent, which returns; a batch job awaiting it goes on to
\* its timer.
LoadSettle(l, res) ==
    /\ BagIn(l, loads)
    /\ loads' = loads (-) SetToBag({l})
    /\ state' = IF res.ok
                THEN MapChapter(state, l.id, SetCompleted(res.value))
                ELSE MapChapter(state, l.id, SetError(res.error))
    /\ IF l.src = "batch"
       THEN \E j \in jobs :
              /\ j.jid = l.job
              /\ LET completedCount == IF res.ok THEN j.completedCount + 1
                                       ELSE j.completedCount
                 IN  /\ downloadProgress' = Progress(completedCount, j.total)
                     /\ jobs' = (jobs \ {j}) \cup
                                  {[j EXCEPT !.completedCount = completedCount,
                                             !.pc = "delay"]}
       ELSE UNCHANGED <<downloadProgress, jobs>>
    /\ UNCHANGED <<apiKey, isDownloadModalOpen, errorMsg, abortFetchRef,
                   searches, exports, nextId, nSearch, nJob, nAction, retry>>

\* A mutant of JobTimer: the next iteration takes the record of the last
\* one again.
JobTimerSameRecord(j) ==
    /\ j \in jobs
    /\ j.pc = "delay"
    /\ IF j.k < Len(j.toFetch) /\ ~abortFetchRef
       THEN /\ LoaderStart(state, j.toFetch[j.k], "batch", j.jid)
            /\ jobs' = (jobs \ {j}) \cup {[j EXCEPT !.k = j.k + 1, !.pc = "fetch"]}
            /\ UNCHANGED <<downloadProgress, errorMsg, exports>>
       ELSE /\ IF ~abortFetchRef
               THEN generateRangeDownload(j.closure, j.start, j.end)
               ELSE UNCHANGED <<errorMsg, exports>>
            /\ downloadProgress' = NoProgress
            /\ jobs' = jobs \ {j}
            /\ UNCHANGED <<state, loads>>
    /\ UNCHANGED <<apiKey, isDownloadModalOpen, abortFetchRef, searches, nextId,
                   nSearch, nJob, nAction, retry>>

\* The inter-fetch timer of job j fires: the next iteration of the loop
\* up to its await, or the rest of handleDownloadRange after the loop.
JobTimer(j) ==
    /\ j \in jobs
    /\ j.pc = "delay"
    /\ IF j.k < Len(j.toFetch) /\ ~abortFetchRef
       THEN /\ LoaderStart(state, j.toFetch[j.k + 1], "batch", j.jid)
            /\ jobs' = (jobs \ {j}) \cup {[j EXCEPT !.k = j.k + 1, !.pc = "fetch"]}
            /\ UNCHANGED <<downloadProgress, errorMsg, exports>>
       ELSE /\ IF ~abortFetchRef
               THEN generateRangeDownload(j.closure, j.start, j.end)
               ELSE UNCHANGED <<errorMsg, exports>>
            /\ downloadProgress' = NoProgress
            /\ jobs' = jobs \ {j}
            /\ UNCHANGED <<state, loads>>
    /\ UNCHANGED <<apiKey, isDownloadModalOpen, abortFetchRef, searches, nextId,
                   nSearch, nJob, nAction, retry>>

-----------------------------------------------------------------------------
(* Specifications. *)

InitSession ==
    /\ apiKey \in BOOLEAN
    /\ state = InitialState
    /\ isDownloadModalOpen = FALSE
    /\ downloadProgress = NoProgress
    /\ errorMsg = <<>>
    /\ abortFetchRef = FALSE
    /\ searches = {}
    /\ loads = EmptyBag
    /\ jobs = {}
    /\ exports = <<>>
    /\ nextId = 1
    /\ nSearch = 0
    /\ nJob = 0
    /\ nAction = 0

Init == InitSession /\ retry = RetryIdle

Next ==
    \/ \E input \in SearchInputs : HandleSearch(input)
    \/ \E s \in searches : \E res \in fetchNovelMetadata(apiKey, s.novelName) :
          SearchSettle(s, res)
    \/ \E id \in 1..(nextId - 1) : SelectChapter(id)
    \/ \E step \in {-1, 1} : NavigateChapter(step)
    \/ Retry
    \/ OpenModal
    \/ CloseModal
    \/ DismissError
    \/ \E r \in Ranges(state.totalChaptersEstimate, state.chapters) :
          HandleDownloadRange(r.start, r.end)
    \/ \E l \in BagToSet(loads) : \E res \in ChapterFetches[apiKey, l.number] :
          LoadSettle(l, res)
    \/ \E j \in jobs : JobTimer(j)

\* The session.
Spec == Init /\ [][Next]_vars

\* One call of retryWithBackoff.
SpecRetry == Init /\ [][NextRetry]_vars

-----------------------------------------------------------------------------
(* Properties of retryWithBackoff, under SpecRetry. *)

\* A failed invocation whose error is one of the throttling errors.
Throttled(out) == ~out.ok /\ out.error \in RateLimitErrors

\* C1: with the default budget of 3 attempts, a rate-limit failure of
\* attempt 1 is followed by a wait of 2000ms and one of attempt 2 by a wait
\* of 4000ms; two such failures and a success on attempt 3 make the call
\* succeed with that result, having waited exactly 2000ms then 4000ms; a
\* rate-limit failure of attempt 3 makes the call fail with the
\* quota-exceeded error; the operation is invoked at most 3 times.
C1_RetryPolicy ==
    retry.maxRetries = 3 =>
       /\ retry.calls <= 3
       /\ retry.calls = Len(retry.hist)
       /\ \A k \in 1..Len(retry.hist) :
             (\A m \in 1..k : Throttled(retry.hist[m])) =>
                /\ k < 3 => /\ Len(retry.waits) >= k
                            /\ retry.waits[k] = IF k = 1 THEN 2000 ELSE 4000
                /\ k = 3 => /\ retry.pc = "done"
                            /\ retry.result = Throw(NewError(MsgQuota))
       /\ ( /\ Len(retry.hist) = 3
            /\ Throttled(retry.hist[1])
            /\ Throttled(retry.hist[2])
            /\ retry.hist[3].ok ) =>
               /\ retry.pc = "done"
               /\ retry.result = retry.hist[3]
               /\ retry.waits = <<2000, 4000>>

\* Two throttled attempts, then a successful third one.
C1_Witness ==
    /\ retry.pc = "done"
    /\ retry.calls = 3
    /\ Throttled(retry.hist[1]) /\ Throttled(retry.hist[2])
    /\ retry.result.ok
    /\ Truthy(retry.result.value.content)

\* The error is not classified as rate-limiting, in the words of the claim.
NotThrottling(e) ==
    /\ e.status # 429
    /\ e.code # 429
    /\ \A i \in 1..Len(e.message) : e.message[i] \notin {"429", "quota", "exhausted"}

\* C2: a failure of the operation that is not classified as rate-limiting
\* (status and code are not 429, the message contains none of "429",
\* "quota", "exhausted"), on whichever attempt, ends the call with that same
\* error: the operation is not invoked again and no delay is taken for it.
C2_OtherFailuresPropagate ==
    \A k \in 1..Len(retry.hist) :
       (~retry.hist[k].ok /\ NotThrottling(retry.hist[k].error)) =>
          /\ k = Len(retry.hist)
          /\ retry.calls = k
          /\ retry.pc = "done"
          /\ retry.result = retry.hist[k]
          /\ Len(retry.waits) = k - 1

\* The second attempt fails with the content-unavailable or the
\* unparseable-response error, which is what the call ends with.
C2_Witness ==
    /\ retry.pc = "done"
    /\ Len(retry.hist) = 2
    /\ ~retry.result.ok
    /\ retry.result.error.message \in {MsgUnavailable, MsgInterpret}

-----------------------------------------------------------------------------
(* Properties of the session, under Spec. *)

\* The job j returns in this step: it is suspended before and gone after.
JobExits(j) == j \in jobs /\ \A other \in jobs' : other.jid # j.jid

\* Inputs whose trimmed length is below 2, in the words of the claim.
ShortInputs == { <<>>, <<" ">>, <<"a">>, <<" ", "a", " ">> }

\* C10: a search whose input has trimmed length below 2 (empty included) is
\* rejected before any oracle request: the manifest, the cancel flag and
\* everything else of the session are left as they were, and only the error
\* message is set.
C10_ShortSearchRejected ==
    [][ \A input \in ShortInputs \cap SearchInputs :
           HandleSearch(input) =>
              /\ Truthy(errorMsg')
              /\ state' = state
              /\ abortFetchRef' = abortFetchRef
              /\ searches' = searches
              /\ UNCHANGED <<isDownloadModalOpen, downloadProgress, loads, jobs,
                             exports, nextId, nSearch, nJob>> ]_vars

\* A too-short search was rejected while a manifest is loaded and the
\* cancel flag is set.
C10_Witness ==
    /\ errorMsg = MsgTooShort
    /\ Len(state.chapters) > 0
    /\ abortFetchRef

\* The records of the live manifest st whose number lies in [start, end].
RangeRecords(st, start, end) ==
    SelectSeq(st.chapters, LAMBDA c : InRange(c, start, end))

\* C3: when a batch job over a range that lies within the live manifest
\* returns without having been cancelled, every record of the live manifest
\* in that range is completed or error, whatever was interleaved with it.
C3_RangeSettledAfterBatch ==
    [][ \A j \in jobs :
           ( /\ JobExits(j)
             /\ ~abortFetchRef
             /\ j.end <= Len(state'.chapters) ) =>
              \A i \in 1..Len(state'.chapters) :
                 InRange(state'.chapters[i], j.start, j.end) =>
                    state'.chapters[i].status \in {"completed", "error"} ]_vars

\* The sections a document of range [start, end] has when it is built from
\* the manifest st: one per record with content, ascending by number.
SectionsOf(st, start, end) ==
    LET valid == SortByNumber(SelectSeq(RangeRecords(st, start, end),
                                        LAMBDA c : Truthy(c.content)))
    IN  [k \in 1..Len(valid) |-> [number |-> valid[k].number,
                                  title |-> valid[k].title,
                                  content |-> valid[k].content]]

\* C4: when an uncancelled batch job ends, the document it exports has
\* exactly one section for each record of its range whose content is
\* present in the manifest as it is at that moment, the chapters the job
\* itself has fetched included.
C4_ExportReadsFinalManifest ==
    [][ \A j \in jobs :
           (JobExits(j) /\ ~abortFetchRef) =>
              LET live == SectionsOf(state', j.start, j.end)
              IN  IF Len(live) = 0 THEN exports' = exports
                  ELSE /\ Len(exports') = Len(exports) + 1
                       /\ exports'[Len(exports')].sections = live ]_vars

\* C5: a cancellation issued during the delay after fetch K leaves the
\* manifest as it is, and the job it cancelled never begins fetch K+1,
\* whatever the user does afterwards.
C5_CancelStopsNextFetch ==
    [][ /\ (abortFetchRef' /\ ~abortFetchRef) => state' = state
        /\ \A j \in jobs' :
              j.cancelledAt > 0 => ~(j.pc = "fetch" /\ j.k > j.cancelledAt) ]_vars

\* C6: neither the auto-load on selection nor a batch job invokes the
\* Loader on a record that is loading or completed at that moment.
C6_NoLoadOfLoadingOrCompleted ==
    \A l \in BagToSet(loads) :
       l.src \in {"auto", "batch"} => l.seen \notin {"loading", "completed"}

\* C7: at most one chapter fetch is in flight at any time.
C7_OneFetchInFlight == BagCardinality(loads) <= 1

\* C8: at most one batch job is active at any time.
C8_OneBatchJob == Cardinality(jobs) <= 1

\* C9: when a search that no other search overlaps with fails (the novel
\* does not exist, the response cannot be parsed, the retry budget is
\* exhausted, or the oracle fails otherwise), the chapter records that
\* existed when it was submitted are still present: as many records, with
\* the same ids and the content they had.
C9_FailedSearchKeepsManifest ==
    [][ \A s \in searches :
           \A res \in MetadataFetches[apiKey] :
              ( /\ SearchSettle(s, res)
                /\ (~res.ok \/ ~res.value.meta.exists)
                /\ s.alone /\ s.sid = nSearch ) =>
                 /\ Len(state'.chapters) = Len(s.prior.chapters)
                 /\ \A i \in 1..Len(s.prior.chapters) :
                       /\ state'.chapters[i].id = s.prior.chapters[i].id
                       /\ Truthy(s.prior.chapters[i].content) =>
                             state'.chapters[i].content = s.prior.chapters[i].content
       ]_vars

\* C11: in every reachable state, a search being in flight or having failed
\* included, the chapter numbers of the manifest are exactly 1..T without
\* gaps or duplicates, T being its totalChaptersEstimate, and the ids of the
\* records are pairwise distinct.
C11_NumbersAreOneToTotal ==
    /\ Len(state.chapters) = state.totalChaptersEstimate
    /\ \A i \in 1..Len(state.chapters) : state.chapters[i].number = i
    /\ \A i, k \in 1..Len(state.chapters) :
          state.chapters[i].id = state.chapters[k].id => i = k

\* C12: the Loader does not throw to its caller.  When the fetch of a call
\* fails, the record the call targets becomes error with the message of the
\* failure and keeps the content it had, every other record is left alone,
\* and a batch job awaiting the call goes on without counting a success.
\* The update made on failure does this for every kind of failure the fetch
\* has, applied to any record of the manifest.
C12_LoaderCapturesFailure ==
    [][ /\ \A l \in BagToSet(loads) :
             \A res \in ChapterFetches[apiKey, l.number] :
                (LoadSettle(l, res) /\ ~res.ok) =>
                   /\ Len(state'.chapters) = Len(state.chapters)
                   /\ \A i \in 1..Len(state.chapters) :
                         state'.chapters[i] =
                            IF state.chapters[i].id = l.id
                            THEN [state.chapters[i] EXCEPT
                                     !.status = "error",
                                     !.errorMessage = res.error.message]
                            ELSE state.chapters[i]
                   /\ \A j \in jobs :
                         (l.src = "batch" /\ j.jid = l.job) =>
                            \E after \in jobs' :
                               /\ after.jid = j.jid
                               /\ after.pc = "delay"
                               /\ after.completedCount = j.completedCount
        /\ \A res \in ChapterFailures :
              \A i \in 1..Len(state.chapters) :
                 MapChapter(state, state.chapters[i].id, SetError(res.error)).chapters[i]
                    = [state.chapters[i] EXCEPT !.status = "error",
                                                !.errorMessage = res.error.message]
      ]_vars

\* A record that had content when a fetch for it failed: it is error, with
\* the message of the failure and the text it had.
C12_Witness ==
    \E i \in 1..Len(state.chapters) :
       /\ state.chapters[i].status = "error"
       /\ Truthy(state.chapters[i].errorMessage)
       /\ Truthy(state.chapters[i].content)

\* The calls of the Loader in flight that the batch job jid has made.
BatchLoads(ls, jid) == { l \in BagToSet(ls) : l.src = "batch" /\ l.job = jid }

\* C13: a failed chapter does not end a batch job.  A job starts with a call
\* of the Loader for the first record of toFetch; each later step of it
\* either leaves its position or moves it by one, to a call for the next
\* record of toFetch; it has at most one call in flight, for the record it
\* is at; and when it returns without the cancel flag set it has gone
\* through all of toFetch, whichever of the fetches failed.  A failed fetch
\* of a job changes no record but the one it was for.
C13_FailureDoesNotAbortBatch ==
    [][ /\ \A j \in jobs' :
             /\ j.k \in 1..Len(j.toFetch)
             /\ j.pc = "fetch" =>
                   \E l \in BatchLoads(loads', j.jid) : l.id = j.toFetch[j.k].id
             /\ (\A before \in jobs : before.jid # j.jid) =>
                   j.k = 1 /\ j.pc = "fetch"
             /\ \A before \in jobs :
                   before.jid = j.jid =>
                      /\ j.toFetch = before.toFetch
                      /\ j.k \in {before.k, before.k + 1}
                      /\ j.k = before.k + 1 =>
                            before.pc = "delay" /\ j.pc = "fetch"
        /\ \A j \in jobs :
              (JobExits(j) /\ ~abortFetchRef) =>
                 j.pc = "delay" /\ j.k = Len(j.toFetch)
        /\ \A l \in BagToSet(loads) :
              \A res \in ChapterFetches[apiKey, l.number] :
                 (l.src = "batch" /\ ~res.ok /\ LoadSettle(l, res)) =>
                    \A i \in 1..Len(state.chapters) :
                       state.chapters[i].id # l.id =>
                          state'.chapters[i] = state.chapters[i] ]_vars

\* A job over two records to fetch whose first fetch has failed and which
\* is fetching the second.
C13_Witness ==
    \E j \in jobs :
       /\ Len(j.toFetch) = 2
       /\ j.k = 2 /\ j.pc = "fetch"
       /\ j.completedCount = 0
       /\ j.cancelledAt = 0
       /\ \E i \in 1..Len(state.chapters) :
             /\ state.chapters[i].id = j.toFetch[1].id
             /\ state.chapters[i].status = "error"

\* C14: a range download that selects no record of the live manifest starts
\* no fetch, leaves the progress absent, exports nothing, and leaves every
\* other part of the session as it was, the cancel flag included.  The
\* ranges are those the modal offers; one selects nothing when the manifest
\* has been emptied by a search that is in flight or has failed.
C14_EmptySelectionIsNoOp ==
    [][ \A r \in Ranges(state.totalChaptersEstimate, state.chapters) :
           ( /\ HandleDownloadRange(r.start, r.end)
             /\ RangeRecords(state, r.start, r.end) = <<>> ) =>
              /\ loads' = loads
              /\ jobs' = jobs
              /\ downloadProgress = NoProgress
              /\ downloadProgress' = NoProgress
              /\ exports' = exports
              /\ state' = state
              /\ errorMsg' = errorMsg
              /\ isDownloadModalOpen' = isDownloadModalOpen
              /\ searches' = searches
              /\ abortFetchRef' = abortFetchRef ]_vars

\* The modal is open and idle over an emptied manifest whose declared total
\* still gives it a range button, while an earlier job is suspended.
C14_Witness ==
    /\ isDownloadModalOpen
    /\ downloadProgress = NoProgress
    /\ state.chapters = <<>>
    /\ Ranges(state.totalChaptersEstimate, state.chapters) # {}
    /\ jobs # {}

\* C15: the progress is present exactly while a batch job is running: from
\* the start of a job until its loop has exited it is present, and when no
\* job is running it is absent.
C15_ProgressIffJobRunning ==
    (downloadProgress # NoProgress) <=> (jobs # {})

\* C16: a batch job triggers the export exactly when it was not cancelled.
\* A job during which the cancel signal was set exports nothing when it
\* returns, whatever was started before it reached its next test of the
\* signal; a job during which it was never set calls the export once, when
\* it returns after its last fetch and the delay that follows it.
C16_ExportIffNotCancelled ==
    [][ \A j \in jobs :
           JobExits(j) =>
              IF j.cancelled
              THEN exports' = exports
              ELSE /\ j.pc = "delay" /\ j.k = Len(j.toFetch)
                   /\ \/ /\ Len(exports') = Len(exports) + 1
                         /\ exports'[Len(exports')].start = j.start
                         /\ exports'[Len(exports')].end = j.end
                      \/ /\ exports' = exports
                         /\ errorMsg' = MsgExportFailed(j.start, j.end) ]_vars

\* C17: within one batch job the Loader is invoked in strictly ascending
\* chapter number and strictly one call after another: the job has exactly
\* one call in flight while it awaits a fetch, which is for the record it is
\* at, and none while it is in its delay; it moves on to the next record
\* only from the delay, which it enters when its call settles, by failure as
\* well as by success.
C17_AscendingOneAfterAnother ==
    [][ /\ \A j \in jobs' :
             /\ \A a, b \in 1..Len(j.toFetch) :
                   a < b => j.toFetch[a].number < j.toFetch[b].number
             /\ j.pc = "delay" => BatchLoads(loads', j.jid) = {}
             /\ j.pc = "fetch" =>
                   /\ \A l \in BatchLoads(loads', j.jid) :
                         /\ l.id = j.toFetch[j.k].id
                         /\ l.number = j.toFetch[j.k].number
                         /\ CopiesIn(l, loads') = 1
                   /\ Cardinality(BatchLoads(loads', j.jid)) = 1
             /\ \A before \in jobs :
                   before.jid = j.jid =>
                      /\ before.pc = "fetch" => j.k = before.k
                      /\ j.k # before.k =>
                            /\ before.pc = "delay" /\ j.pc = "fetch"
                            /\ j.k = before.k + 1
        /\ \A l \in BagToSet(loads) :
              \A res \in ChapterFetches[apiKey, l.number] :
                 (l.src = "batch" /\ LoadSettle(l, res)) =>
                    \E j \in jobs' : j.jid = l.job /\ j.pc = "delay" ]_vars

\* A job over chapters 1 and 2 that has fetched both, one after the other,
\* and is in the delay after the second.
C17_Witness ==
    \E j \in jobs :
       /\ Len(j.toFetch) = 2
       /\ j.toFetch[1].number = 1 /\ j.toFetch[2].number = 2
       /\ j.k = 2 /\ j.pc = "delay"

\* C18: a record that is completed has content and a record that is pending
\* has none; and as long as a record is in the manifest, content it has is
\* not made absent again, whatever call of the Loader starts or settles on
\* it.  Every result the fetch can resolve with, put on a record, gives it
\* content.
C18_StatusAgreesWithContent ==
    [][ /\ \A i \in 1..Len(state'.chapters) :
             /\ state'.chapters[i].status = "completed" =>
                   Truthy(state'.chapters[i].content)
             /\ state'.chapters[i].status = "pending" =>
                   ~Truthy(state'.chapters[i].content)
        /\ \A res \in ChapterSuccesses :
              \A i \in 1..Len(state.chapters) :
                 Truthy(MapChapter(state, state.chapters[i].id,
                                   SetCompleted(res.value)).chapters[i].content)
        /\ \A i \in 1..Len(state.chapters) :
              \A k \in 1..Len(state'.chapters) :
                 ( /\ state'.chapters[k].id = state.chapters[i].id
                   /\ Truthy(state.chapters[i].content) ) =>
                    Truthy(state'.chapters[k].content) ]_vars

\* A record that has content is being fetched again.
C18_Witness ==
    \E i \in 1..Len(state.chapters) :
       /\ state.chapters[i].status = "loading"
       /\ Truthy(state.chapters[i].content)
       /\ \E l \in BagToSet(loads) : l.id = state.chapters[i].id

\* The ids of the records of the manifest st.
Ids(st) == { st.chapters[i].id : i \in 1..Len(st.chapters) }

\* C19: a fetch for a record that is no longer in the manifest, a search
\* having replaced it, changes no record of the new manifest when it
\* settles; nor does the start of a later fetch of a batch job for such a
\* record.
C19_OldFetchesLeaveNewManifest ==
    [][ /\ \A l \in BagToSet(loads) :
             \A res \in ChapterFetches[apiKey, l.number] :
                (LoadSettle(l, res) /\ l.id \notin Ids(state)) =>
                   state' = state
        /\ \A j \in jobs :
              ( /\ JobTimer(j)
                /\ j.k < Len(j.toFetch)
                /\ j.toFetch[j.k + 1].id \notin Ids(state) ) =>
                 state' = state ]_vars

\* A batch job started on a manifest that a search has replaced since is
\* fetching its second record, the new manifest being in place.
C19_Witness ==
    /\ Len(state.chapters) > 0
    /\ \E j \in jobs :
          /\ j.k = 2 /\ j.pc = "fetch"
          /\ j.toFetch[1].id \notin Ids(state)
          /\ j.toFetch[2].id \notin Ids(state)
          /\ \E l \in BatchLoads(loads, j.jid) : l.id = j.toFetch[2].id

\* C20: of two searches that overlap and both succeed, the one submitted
\* later gives the manifest: when the earlier one resolves after the later
\* one has, it does not replace the title, the author and the chapters the
\* later one has put in place.  And isFetchingList is false only when no
\* search is outstanding.
C20_LaterSearchWins ==
    [][ /\ \A s \in searches :
             \A res \in MetadataFetches[apiKey] :
                ( /\ SearchSettle(s, res)
                  /\ res.ok /\ res.value.meta.exists
                  /\ s.alone /\ nSearch = s.sid + 1
                  /\ searches = {s}
                  /\ Len(state.chapters) > 0 ) =>
                   /\ state'.title = state.title
                   /\ state'.author = state.author
                   /\ state'.chapters = state.chapters
        /\ ~state'.isFetchingList => searches' = {} ]_vars

====
